---- MODULE Spec2Model ----
(***************************************************************************)
(* A model of the table renderer of src/tabulate.py (tabulate 0.7.5 as     *)
(* vendored by PROYECTO-FINAL).                                            *)
(*                                                                         *)
(* Text is modelled as a sequence of characters, each character a          *)
(* one-element string; "ESC" stands for the escape character \x1b.         *)
(* Python values are records [kind, n, s]:                                 *)
(*   kind "none"   : None                                                  *)
(*   kind "int"    : an int, value n                                       *)
(*   kind "bool"   : True / False (n = 1 / 0); type(v) is bool, not int    *)
(*   kind "float"  : a float, value n / 10^FracDigits (fixed point)        *)
(*   kind "text"   : a str, characters s                                   *)
(*   kind "bytes"  : a bytes object, characters s                          *)
(*   kind "date"   : a datetime.date (it has an isoformat attribute)       *)
(*   kind "object" : any other object (here: an empty list)                *)
(* The module models the Python 3 branch of the import block (lines 25-37  *)
(* of tabulate.py); Registro.py is Python 3 code.                          *)
(***************************************************************************)
EXTENDS Integers, Sequences, FiniteSets, TLC

\* ------------------------------------------------------------------ bounds
\* The largest number of data rows of a rendered table.
MaxRows == 2
\* Floats are fixed-point numbers with this many decimal digits.
FracDigits == 2
\* The largest number of times registro_Menu asks for an option.
MaxPrompts == 3

\* ------------------------------------------------------- program constants
MIN_PADDING == 2

\* ------------------------------------------------------------- characters
DigitChars == <<"0", "1", "2", "3", "4", "5", "6", "7", "8", "9">>
IsDigit(c) == c \in {"0", "1", "2", "3", "4", "5", "6", "7", "8", "9"}
IsSpace(c) == c \in {" ", "\t", "\n"}

Max(a, b) == IF a >= b THEN a ELSE b

\* The character at position i of s, "" past either end.
At(s, i) == IF i >= 1 /\ i <= Len(s) THEN s[i] ELSE ""

RECURSIVE Pow10(_)
Pow10(k) == IF k <= 0 THEN 1 ELSE 10 * Pow10(k - 1)

\* Python's c * n on a one-character string: empty for n <= 0.
RECURSIVE Repeat(_, _)
Repeat(c, n) == IF n <= 0 THEN <<>> ELSE <<c>> \o Repeat(c, n - 1)

\* Python's sep.join(parts).
RECURSIVE Join(_, _)
Join(sep, parts) ==
    IF Len(parts) = 0 THEN <<>>
    ELSE IF Len(parts) = 1 THEN parts[1]
    ELSE parts[1] \o sep \o Join(sep, Tail(parts))

\* The number of consecutive digits of s from position i on.
RECURSIVE DigitsRun(_, _)
DigitsRun(s, i) == IF IsDigit(At(s, i)) THEN 1 + DigitsRun(s, i + 1) ELSE 0

\* Python's s.strip(), s.rstrip().
RECURSIVE RStrip(_)
RStrip(s) ==
    IF Len(s) > 0 /\ IsSpace(s[Len(s)]) THEN RStrip(SubSeq(s, 1, Len(s) - 1)) ELSE s
RECURSIVE LStrip(_)
LStrip(s) == IF Len(s) > 0 /\ IsSpace(s[1]) THEN LStrip(Tail(s)) ELSE s
Strip(s) == LStrip(RStrip(s))

\* Python's s.rfind(c): the last 1-based position of c in s, 0 when absent.
RECURSIVE RFind(_, _)
RFind(s, c) ==
    IF Len(s) = 0 THEN 0
    ELSE IF s[Len(s)] = c THEN Len(s)
    ELSE RFind(SubSeq(s, 1, Len(s) - 1), c)

\* Python's s.lower() on the letters the model uses.
LowerChar(c) == IF c = "E" THEN "e" ELSE c
Lower(s) == [i \in 1..Len(s) |-> LowerChar(s[i])]

\* str(n) of a natural number, of an integer.
RECURSIVE NatToStr(_)
NatToStr(n) ==
    IF n < 10 THEN <<DigitChars[n + 1]>>
    ELSE NatToStr(n \div 10) \o <<DigitChars[(n % 10) + 1]>>
IntToStr(n) == IF n < 0 THEN <<"-">> \o NatToStr(-n) ELSE NatToStr(n)

\* --------------------------------------------------------- Python values
PyNone == [kind |-> "none", n |-> 0, s |-> <<>>]
PyInt(n) == [kind |-> "int", n |-> n, s |-> <<>>]
PyBool(b) == [kind |-> "bool", n |-> IF b THEN 1 ELSE 0, s |-> <<>>]
PyFloat(h) == [kind |-> "float", n |-> h, s |-> <<>>]
PyText(s) == [kind |-> "text", n |-> 0, s |-> s]
PyBytes(s) == [kind |-> "bytes", n |-> 0, s |-> s]
PyDate == [kind |-> "date", n |-> 0, s |-> <<"2", "0", "1", "8", "-", "0", "6", "-", "1", "4">>]
PyObject == [kind |-> "object", n |-> 0, s |-> <<"[", "]">>]

\* The type names the import block binds (Python 3 branch).
_none_type == "NoneType"
_int_type == "int"
_long_type == "int"
_float_type == "float"
_text_type == "str"
_binary_type == "bytes"

\* isinstance(v, t) and type(v) for the modelled values.
TypeOf(v) ==
    CASE v.kind = "none" -> "NoneType"
      [] v.kind = "int" -> "int"
      [] v.kind = "bool" -> "bool"
      [] v.kind = "float" -> "float"
      [] v.kind = "text" -> "str"
      [] v.kind = "bytes" -> "bytes"
      [] v.kind = "date" -> "date"
      [] OTHER -> "list"
IsInstance(v, t) == TypeOf(v) = t \/ (t = "int" /\ TypeOf(v) = "bool")
IsString(v) == IsInstance(v, _text_type) \/ IsInstance(v, _binary_type)

\* int(s) of a string succeeds: optional blanks, an optional sign, digits.
IsIntLiteral(s) ==
    LET t == Strip(s)
        i0 == IF At(t, 1) \in {"+", "-"} THEN 2 ELSE 1
        a == DigitsRun(t, i0)
    IN  a > 0 /\ i0 + a = Len(t) + 1

\* float(s) of a string succeeds: optional blanks, an optional sign, then
\* inf / nan, or digits with an optional point and an optional exponent.
FloatSyntax(t) ==
    LET i0 == IF At(t, 1) \in {"+", "-"} THEN 2 ELSE 1
        rest == SubSeq(t, i0, Len(t))
        a == DigitsRun(t, i0)
        i1 == i0 + a
        hasdot == At(t, i1) = "."
        b == IF hasdot THEN DigitsRun(t, i1 + 1) ELSE 0
        i2 == IF hasdot THEN i1 + 1 + b ELSE i1
        hasexp == At(t, i2) = "e"
        i3 == IF At(t, i2 + 1) \in {"+", "-"} THEN i2 + 2 ELSE i2 + 1
        c == DigitsRun(t, i3)
        end == IF hasexp THEN i3 + c ELSE i2
    IN  \/ rest \in {<<"i", "n", "f">>, <<"n", "a", "n">>,
                     <<"i", "n", "f", "i", "n", "i", "t", "y">>}
        \/ a + b > 0 /\ (hasexp => c > 0) /\ end = Len(t) + 1

IsFloatLiteral(s) == FloatSyntax(Lower(Strip(s)))

\* conv(v) returns instead of raising ValueError or TypeError.
Converts(conv, v) ==
    CASE v.kind \in {"int", "bool", "float"} -> TRUE
      [] v.kind \in {"text", "bytes"} ->
            IF conv = "int" THEN IsIntLiteral(v.s) ELSE IsFloatLiteral(v.s)
      [] OTHER -> FALSE

\* ---------------------------------------------------- invisible codes
\* The length of the match of _invisible_codes at position i of s, 0 if none:
\* ESC [ digits m, or ESC [ digits ; digits ; digits m.
InvisibleMatch(s, i) ==
    LET d1 == DigitsRun(s, i + 2)
        p1 == i + 2 + d1
        d2 == DigitsRun(s, p1 + 1)
        p2 == p1 + 1 + d2
        d3 == DigitsRun(s, p2 + 1)
        p3 == p2 + 1 + d3
    IN  IF At(s, i) # "ESC" \/ At(s, i + 1) # "[" THEN 0
        ELSE IF At(s, p1) = "m" THEN p1 - i + 1
        ELSE IF At(s, p1) = ";" /\ At(s, p2) = ";" /\ At(s, p3) = "m" THEN p3 - i + 1
        ELSE 0

RECURSIVE StripFrom(_, _)
StripFrom(s, i) ==
    IF i > Len(s) THEN <<>>
    ELSE IF InvisibleMatch(s, i) > 0 THEN StripFrom(s, i + InvisibleMatch(s, i))
    ELSE <<s[i]>> \o StripFrom(s, i + 1)

_strip_invisible(s) == StripFrom(s, 1)

\* ------------------------------------------------------------ classifier
_isconvertible(conv, v) == Converts(conv, v)

_isnumber(v) == _isconvertible("float", v)

_isint_nostrcheck(v, inttype) == TypeOf(v) = inttype \/ _isconvertible(inttype, v)

_isint(v, inttype) ==
    \/ TypeOf(v) = inttype
    \/ /\ IsInstance(v, _binary_type) \/ IsInstance(v, _text_type)
       /\ _isconvertible(inttype, v)

_type(value, has_invisible) ==
    LET string == IF has_invisible /\ IsString(value)
                  THEN [value EXCEPT !.s = _strip_invisible(value.s)]
                  ELSE value
    IN  IF string.kind = "none" THEN _none_type
        ELSE IF string.kind = "date" THEN _text_type
        ELSE IF _isint(string, _int_type) THEN "int"
        ELSE IF _isint(string, _long_type) THEN _long_type
        ELSE IF _isnumber(string) THEN "float"
        ELSE IF IsInstance(string, _binary_type) THEN _binary_type
        ELSE _text_type

\* -------------------------------------------------------- format elements
\* A line or row element of a TableFormat is None, a Line tuple, a DataRow
\* tuple, or a function (named by fn, with the arguments partial() binds).
None == [tag |-> "None"]
Line(begin, hline, sep, end) ==
    [tag |-> "Line", begin |-> begin, hline |-> hline, sep |-> sep, end |-> end]
DataRow(begin, sep, end) == [tag |-> "DataRow", begin |-> begin, sep |-> sep, end |-> end]
Fn(fn, bound) == [tag |-> "Fn", fn |-> fn, bound |-> bound]

\* with_header_hide = None is the empty set of element names.
TableFormat(lineabove, linebelowheader, linebetweenrows, linebelow, headerrow, datarow, padding, with_header_hide) ==
    [lineabove |-> lineabove, linebelowheader |-> linebelowheader,
     linebetweenrows |-> linebetweenrows, linebelow |-> linebelow,
     headerrow |-> headerrow, datarow |-> datarow,
     padding |-> padding, with_header_hide |-> with_header_hide]

MediawikiBegin ==
    <<"{", "|", " ", "c", "l", "a", "s", "s", "=", "\"",
        "w", "i", "k", "i", "t", "a", "b", "l", "e", "\"", " ", "s", "t",
        "y", "l", "e", "=", "\"", "t", "e", "x", "t", "-", "a", "l", "i",
        "g", "n", ":", " ", "l", "e", "f", "t", ";", "\"">>

MediawikiCaption ==
    <<"\n", "|", "+", " ", "<", "!", "-", "-", " ", "c",
        "a", "p", "t", "i", "o", "n", " ", "-", "-", ">", "\n", "|", "-">>

LatexEnd ==
    <<"\\", "h", "l", "i", "n", "e", "\n", "\\", "e", "n", "d",
        "{", "t", "a", "b", "u", "l", "a", "r", "}">>

LatexBooktabsEnd ==
    <<"\\", "b", "o", "t", "t", "o", "m", "r", "u", "l",
        "e", "\n", "\\", "e", "n", "d", "{", "t", "a", "b", "u", "l", "a",
        "r", "}">>

LatexBeginTabular ==
    <<"\\", "b", "e", "g", "i", "n", "{", "t", "a", "b",
        "u", "l", "a", "r", "}", "{">>

LatexHline ==
    <<"\\", "h", "l", "i", "n", "e">>

LatexToprule ==
    <<"\\", "t", "o", "p", "r", "u", "l", "e">>

MediawikiAlignRight ==
    <<"a", "l", "i", "g", "n", "=", "\"", "r", "i",
        "g", "h", "t", "\"", "|", " ">>

MediawikiAlignCenter ==
    <<"a", "l", "i", "g", "n", "=", "\"", "c", "e",
        "n", "t", "e", "r", "\"", "|", " ">>

HtmlAlignRight ==
    <<" ", "s", "t", "y", "l", "e", "=", "\"", "t", "e",
        "x", "t", "-", "a", "l", "i", "g", "n", ":", " ", "r", "i", "g", "h",
        "t", ";", "\"">>

HtmlAlignCenter ==
    <<" ", "s", "t", "y", "l", "e", "=", "\"", "t", "e",
        "x", "t", "-", "a", "l", "i", "g", "n", ":", " ", "c", "e", "n", "t",
        "e", "r", ";", "\"">>

TextAsciiTilde ==
    <<"\\", "t", "e", "x", "t", "a", "s", "c", "i", "i",
        "t", "i", "l", "d", "e", "{", "}">>

TextBackslash ==
    <<"\\", "t", "e", "x", "t", "b", "a", "c", "k", "s",
        "l", "a", "s", "h", "{", "}">>

EnsureLess ==
    <<"\\", "e", "n", "s", "u", "r", "e", "m", "a", "t", "h",
        "{", "<", "}">>

EnsureGreater ==
    <<"\\", "e", "n", "s", "u", "r", "e", "m", "a", "t",
        "h", "{", ">", "}">>

_table_formats(name) ==
    CASE name = "simple" ->
      TableFormat(
        Line(<<>>, <<"-">>, <<" ", " ">>, <<>>),
        Line(<<>>, <<"-">>, <<" ", " ">>, <<>>),
        None,
        Line(<<>>, <<"-">>, <<" ", " ">>, <<>>),
        DataRow(<<>>, <<" ", " ">>, <<>>),
        DataRow(<<>>, <<" ", " ">>, <<>>),
        0, {"lineabove", "linebelow"})
      [] name = "plain" ->
      TableFormat(
        None,
        None,
        None,
        None,
        DataRow(<<>>, <<" ", " ">>, <<>>),
        DataRow(<<>>, <<" ", " ">>, <<>>),
        0, {})
      [] name = "grid" ->
      TableFormat(
        Line(<<"+">>, <<"-">>, <<"+">>, <<"+">>),
        Line(<<"+">>, <<"=">>, <<"+">>, <<"+">>),
        Line(<<"+">>, <<"-">>, <<"+">>, <<"+">>),
        Line(<<"+">>, <<"-">>, <<"+">>, <<"+">>),
        DataRow(<<"|">>, <<"|">>, <<"|">>),
        DataRow(<<"|">>, <<"|">>, <<"|">>),
        1, {})
      [] name = "fancy_grid" ->
      TableFormat(
        Line(<<"U+2552">>, <<"U+2550">>, <<"U+2564">>, <<"U+2555">>),
        Line(<<"U+255E">>, <<"U+2550">>, <<"U+256A">>, <<"U+2561">>),
        Line(<<"U+251C">>, <<"U+2500">>, <<"U+253C">>, <<"U+2524">>),
        Line(<<"U+2558">>, <<"U+2550">>, <<"U+2567">>, <<"U+255B">>),
        DataRow(<<"U+2502">>, <<"U+2502">>, <<"U+2502">>),
        DataRow(<<"U+2502">>, <<"U+2502">>, <<"U+2502">>),
        0, {})
      [] name = "pipe" ->
      TableFormat(
        Fn("_pipe_line_with_colons", <<>>),
        Fn("_pipe_line_with_colons", <<>>),
        None,
        None,
        DataRow(<<"|">>, <<"|">>, <<"|">>),
        DataRow(<<"|">>, <<"|">>, <<"|">>),
        1, {"lineabove"})
      [] name = "orgtbl" ->
      TableFormat(
        None,
        Line(<<"|">>, <<"-">>, <<"+">>, <<"|">>),
        None,
        None,
        DataRow(<<"|">>, <<"|">>, <<"|">>),
        DataRow(<<"|">>, <<"|">>, <<"|">>),
        1, {})
      [] name = "psql" ->
      TableFormat(
        Line(<<"+">>, <<"-">>, <<"+">>, <<"+">>),
        Line(<<"|">>, <<"-">>, <<"+">>, <<"|">>),
        None,
        Line(<<"+">>, <<"-">>, <<"+">>, <<"+">>),
        DataRow(<<"|">>, <<"|">>, <<"|">>),
        DataRow(<<"|">>, <<"|">>, <<"|">>),
        1, {})
      [] name = "rst" ->
      TableFormat(
        Line(<<>>, <<"=">>, <<" ", " ">>, <<>>),
        Line(<<>>, <<"=">>, <<" ", " ">>, <<>>),
        None,
        Line(<<>>, <<"=">>, <<" ", " ">>, <<>>),
        DataRow(<<>>, <<" ", " ">>, <<>>),
        DataRow(<<>>, <<" ", " ">>, <<>>),
        0, {})
      [] name = "mediawiki" ->
      TableFormat(
        Line(MediawikiBegin, <<>>, <<>>, MediawikiCaption),
        Line(<<"|", "-">>, <<>>, <<>>, <<>>),
        Line(<<"|", "-">>, <<>>, <<>>, <<>>),
        Line(<<"|", "}">>, <<>>, <<>>, <<>>),
        Fn("_mediawiki_row_with_attrs", <<"!">>),
        Fn("_mediawiki_row_with_attrs", <<"|">>),
        0, {})
      [] name = "html" ->
      TableFormat(
        Line(<<"<", "t", "a", "b", "l", "e", ">">>, <<>>, <<>>, <<>>),
        None,
        None,
        Line(<<"<", "/", "t", "a", "b", "l", "e", ">">>, <<>>, <<>>, <<>>),
        Fn("_html_row_with_attrs", <<"t", "h">>),
        Fn("_html_row_with_attrs", <<"t", "d">>),
        0, {})
      [] name = "latex" ->
      TableFormat(
        Fn("_latex_line_begin_tabular", <<>>),
        Line(<<"\\", "h", "l", "i", "n", "e">>, <<>>, <<>>, <<>>),
        None,
        Line(LatexEnd, <<>>, <<>>, <<>>),
        Fn("_latex_row", <<>>),
        Fn("_latex_row", <<>>),
        1, {})
      [] name = "latex_booktabs" ->
      TableFormat(
        Fn("_latex_line_begin_tabular", <<"booktabs">>),
        Line(<<"\\", "m", "i", "d", "r", "u", "l", "e">>, <<>>, <<>>, <<>>),
        None,
        Line(LatexBooktabsEnd, <<>>, <<>>, <<>>),
        Fn("_latex_row", <<>>),
        Fn("_latex_row", <<>>),
        1, {})
      [] name = "tsv" ->
      TableFormat(
        None,
        None,
        None,
        None,
        DataRow(<<>>, <<"\t">>, <<>>),
        DataRow(<<>>, <<"\t">>, <<>>),
        0, {})

\* The keys of _table_formats; tabulate_formats lists them.
tabulate_formats ==
    {"simple", "plain", "grid", "fancy_grid", "pipe", "orgtbl", "psql", "rst",
     "mediawiki", "html", "latex", "latex_booktabs", "tsv"}

simple_separated_format_leading(separator) ==
    TableFormat(None, None, None, None,
                DataRow(separator, separator, <<>>),
                DataRow(separator, separator, <<>>),
                0, {})

simple_separated_format(separator) ==
    TableFormat(None, None, None, None,
                DataRow(<<>>, separator, <<>>),
                DataRow(<<>>, separator, <<>>),
                0, {})

\* ------------------------------------------------- per-format functions
Min(a, b) == IF a <= b THEN a ELSE b

_pipe_segment_with_colons_swapped(align, colwidth) ==
    LET w == colwidth
    IN  IF align \in {"right", "decimal"} THEN <<":">> \o Repeat("-", w - 1)
        ELSE IF align = "center" THEN <<":">> \o Repeat("-", w - 2) \o <<":">>
        ELSE IF align = "left" THEN Repeat("-", w - 1) \o <<":">>
        ELSE Repeat("-", w)

_pipe_segment_with_colons_long(align, colwidth) ==
    LET w == colwidth
    IN  IF align \in {"right", "decimal"} THEN Repeat("-", w - 1) \o <<":">>
        ELSE IF align = "center" THEN <<":">> \o Repeat("-", w - 1) \o <<":">>
        ELSE IF align = "left" THEN <<":">> \o Repeat("-", w - 1)
        ELSE Repeat("-", w)

_pipe_segment_with_colons(align, colwidth) ==
    LET w == colwidth
    IN  IF align \in {"right", "decimal"} THEN Repeat("-", w - 1) \o <<":">>
        ELSE IF align = "center" THEN <<":">> \o Repeat("-", w - 2) \o <<":">>
        ELSE IF align = "left" THEN <<":">> \o Repeat("-", w - 1)
        ELSE Repeat("-", w)

_pipe_line_with_colons(colwidths, colaligns) ==
    LET segments == [i \in 1..Min(Len(colaligns), Len(colwidths)) |->
                        _pipe_segment_with_colons(colaligns[i], colwidths[i])]
    IN  <<"|">> \o Join(<<"|">>, segments) \o <<"|">>

MediawikiAlignment(a) ==
    CASE a \in {"right", "decimal"} -> MediawikiAlignRight
      [] a = "center" -> MediawikiAlignCenter
      [] OTHER -> <<>>

_mediawiki_row_with_attrs(separator, cell_values, colwidths, colaligns) ==
    LET values_with_attrs ==
            [i \in 1..Min(Len(cell_values), Len(colaligns)) |->
                <<" ">> \o MediawikiAlignment(colaligns[i]) \o cell_values[i] \o <<" ">>]
        colsep == separator \o separator
    IN  RStrip(separator \o Join(colsep, values_with_attrs))

HtmlAlignment(a) ==
    CASE a \in {"right", "decimal"} -> HtmlAlignRight
      [] a = "center" -> HtmlAlignCenter
      [] OTHER -> <<>>

_html_row_with_attrs(celltag, cell_values, colwidths, colaligns) ==
    LET values_with_attrs ==
            [i \in 1..Min(Len(cell_values), Len(colaligns)) |->
                <<"<">> \o celltag \o HtmlAlignment(colaligns[i]) \o <<">">>
                \o cell_values[i] \o <<"<", "/">> \o celltag \o <<">">>]
    IN  <<"<", "t", "r", ">">> \o RStrip(Join(<<>>, values_with_attrs))
        \o <<"<", "/", "t", "r", ">">>

LatexColumn(a) ==
    CASE a \in {"right", "decimal"} -> "r"
      [] a = "center" -> "c"
      [] OTHER -> "l"

_latex_line_begin_tabular_one_line(colwidths, colaligns, booktabs) ==
    LET tabular_columns_fmt == [i \in 1..Len(colaligns) |-> LatexColumn(colaligns[i])]
    IN  LatexBeginTabular \o tabular_columns_fmt \o <<"}">> \o <<" ">>
        \o (IF booktabs THEN LatexToprule ELSE LatexHline)

_latex_line_begin_tabular(colwidths, colaligns, booktabs) ==
    LET tabular_columns_fmt == [i \in 1..Len(colaligns) |-> LatexColumn(colaligns[i])]
    IN  LatexBeginTabular \o tabular_columns_fmt \o <<"}">> \o <<"\n">>
        \o (IF booktabs THEN LatexToprule ELSE LatexHline)

LATEX_ESCAPE_RULES(c) ==
    CASE c \in {"&", "%", "$", "#", "_", "{", "}"} -> <<"\\", c>>
      [] c = "^" -> <<"\\", "^", "{", "}">>
      [] c = "~" -> TextAsciiTilde
      [] c = "\\" -> TextBackslash
      [] c = "<" -> EnsureLess
      [] c = ">" -> EnsureGreater
      [] OTHER -> <<c>>

\* begin + sep.join(cells) + end of a DataRow or Line tuple.
_build_simple_row(padded_cells, rowfmt) ==
    rowfmt.begin \o Join(rowfmt.sep, padded_cells) \o rowfmt.end

_latex_row(cell_values, colwidths, colaligns) ==
    LET escaped_values ==
            [i \in 1..Len(cell_values) |->
                Join(<<>>, [k \in 1..Len(cell_values[i]) |->
                                LATEX_ESCAPE_RULES(cell_values[i][k])])]
        rowfmt == DataRow(<<>>, <<"&">>, <<"\\", "\\">>)
    IN  _build_simple_row(escaped_values, rowfmt)

\* ------------------------------------------------------------ type lattice
\* none < int < long < float < text, and none < binary-text < text.
Classes == {"NoneType", "int", "long", "float", "bytes", "str"}

LatticeLeq(a, b) ==
    LET rank == [c \in {"NoneType", "int", "long", "float", "str"} |->
                    CASE c = "NoneType" -> 0 [] c = "int" -> 1 [] c = "long" -> 2
                      [] c = "float" -> 3 [] OTHER -> 4]
    IN  \/ a = b
        \/ a = "NoneType"
        \/ b = "str"
        \/ a # "bytes" /\ b # "bytes" /\ rank[a] <= rank[b]

_more_generic_second(type1, type2) == type2

\* The least classification that is at least as general as both.
_more_generic(type1, type2) ==
    LET upper == {c \in Classes : LatticeLeq(type1, c) /\ LatticeLeq(type2, c)}
    IN  CHOOSE c \in upper : \A d \in upper : LatticeLeq(c, d)

\* The classification of a column: the merge of its cells' classifications.
RECURSIVE _column_type(_, _)
_column_type(values, has_invisible) ==
    IF Len(values) = 0 THEN _none_type
    ELSE _more_generic(_column_type(SubSeq(values, 1, Len(values) - 1), has_invisible),
                       _type(values[Len(values)], has_invisible))

\* --------------------------------------------------------- cell formatter
DigitVal(c) == CHOOSE d \in 0..9 : DigitChars[d + 1] = c

RECURSIVE StrToNat(_)
StrToNat(s) ==
    IF Len(s) = 0 THEN 0
    ELSE 10 * StrToNat(SubSeq(s, 1, Len(s) - 1)) + DigitVal(s[Len(s)])

RECURSIVE StripZeros(_)
StripZeros(s) ==
    IF Len(s) > 0 /\ s[Len(s)] = "0" THEN StripZeros(SubSeq(s, 1, Len(s) - 1)) ELSE s

\* The fixed-point value of a stripped decimal literal without exponent.
DecimalValue(t) ==
    LET neg == At(t, 1) = "-"
        i0 == IF At(t, 1) \in {"+", "-"} THEN 2 ELSE 1
        a == DigitsRun(t, i0)
        ip == StrToNat(SubSeq(t, i0, i0 + a - 1))
        b == IF At(t, i0 + a) = "." THEN DigitsRun(t, i0 + a + 1) ELSE 0
        fd == SubSeq(t, i0 + a + 1, i0 + a + Min(b, FracDigits))
        fr == StrToNat(fd \o Repeat("0", FracDigits - Len(fd)))
        m == ip * Pow10(FracDigits) + fr
    IN  IF neg THEN -m ELSE m

\* float(s) of a string.
ParseDecimal(s) == DecimalValue(Strip(s))

\* float(v) of a value that converts.
ToFloat(v) ==
    CASE v.kind \in {"int", "bool"} -> v.n * Pow10(FracDigits)
      [] v.kind = "float" -> v.n
      [] OTHER -> ParseDecimal(v.s)

FloatDigits(h, whole) ==
    LET a == IF h < 0 THEN -h ELSE h
        ip == NatToStr(a \div Pow10(FracDigits))
        fr == NatToStr(a % Pow10(FracDigits))
        fd == StripZeros(Repeat("0", FracDigits - Len(fr)) \o fr)
    IN  (IF h < 0 THEN <<"-">> ELSE <<>>) \o ip
        \o (IF Len(fd) > 0 THEN <<".">> \o fd ELSE whole)

\* format(x, "g"): trailing zeros and a trailing point are dropped.
FloatToStr(h) == FloatDigits(h, <<>>)

\* "{0}".format(val): str(val).
ToStr(v) ==
    CASE v.kind = "int" -> IntToStr(v.n)
      [] v.kind = "bool" -> IF v.n = 1 THEN <<"T", "r", "u", "e">>
                            ELSE <<"F", "a", "l", "s", "e">>
      [] v.kind = "float" -> FloatDigits(v.n, <<".", "0">>)
      [] v.kind = "none" -> <<"N", "o", "n", "e">>
      [] OTHER -> v.s

_format(val, valtype, missingval) ==
    IF val.kind = "none" THEN missingval
    ELSE IF valtype = "float" THEN FloatToStr(ToFloat(val))
    ELSE ToStr(val)

\* ------------------------------------------------------ column aggregator
\* The display width of a line of text without wide characters.
_visible_width(s) == Len(_strip_invisible(s))

_afterpoint_offbyone(string) ==
    IF _isnumber(PyText(string)) /\ ~_isint(PyText(string), _int_type)
       /\ RFind(string, ".") > 0
    THEN Len(string) - RFind(string, ".") + 1
    ELSE -1

_afterpoint(string) ==
    IF _isnumber(PyText(string))
    THEN IF _isint(PyText(string), _int_type) THEN -1
         ELSE LET dot == RFind(string, ".")
                  pos == IF dot = 0 THEN RFind(Lower(string), "e") ELSE dot
              IN  IF pos > 0 THEN Len(string) - pos ELSE -1
    ELSE -1

_padleft(width, s) == Repeat(" ", width - _visible_width(s)) \o s
_padright(width, s) == s \o Repeat(" ", width - _visible_width(s))
_padboth(width, s) ==
    LET extra == Max(width - _visible_width(s), 0)
    IN  Repeat(" ", extra \div 2) \o s \o Repeat(" ", extra - (extra \div 2))

SeqMax(xs) ==
    IF Len(xs) = 0 THEN 0 ELSE CHOOSE m \in {xs[i] : i \in 1..Len(xs)} :
                                    \A i \in 1..Len(xs) : xs[i] <= m

\* Each cell followed by the blanks that bring its decimals to the longest.
PadDecimals(strings, decimals) ==
    [i \in 1..Len(strings) |->
        strings[i] \o Repeat(" ", SeqMax(decimals) - decimals[i])]

\* The cells of a decimal column, padded on the right so the points line up.
DecimalPadded(strings) ==
    PadDecimals(strings, [i \in 1..Len(strings) |-> _afterpoint(strings[i])])

PadTo(alignment, width, s) ==
    CASE alignment \in {"right", "decimal"} -> _padleft(width, s)
      [] alignment = "center" -> _padboth(width, s)
      [] OTHER -> _padright(width, s)

\* The content width of a column: its widest prepared cell, or its header.
ColumnWidth_ignoring_header(prepared, hw) ==
    SeqMax([i \in 1..Len(prepared) |-> _visible_width(prepared[i])])

ColumnWidth(prepared, hw) ==
    Max(SeqMax([i \in 1..Len(prepared) |-> _visible_width(prepared[i])]), hw)

\* The prepared cells of a column, each padded to the column's width.
PadColumn(prepared, alignment, minwidth) ==
    [i \in 1..Len(prepared) |->
        PadTo(alignment, ColumnWidth(prepared, minwidth), prepared[i])]

_align_column(strings, alignment, minwidth) ==
    PadColumn(IF alignment = "decimal" THEN DecimalPadded(strings) ELSE strings,
              alignment, minwidth)

_align_header(header, alignment, width) == PadTo(alignment, width, header)

ColumnAlign(coltype, numalign, stralign) ==
    IF coltype \in {"int", "long", "float"} THEN numalign ELSE stralign

\* ----------------------------------------------------------- sample text
S_foo == <<"f", "o", "o">>
S_spam == <<"s", "p", "a", "m">>
S_123_45 == <<"1", "2", "3", ".", "4", "5">>
S_123e45 == <<"1", "2", "3", "e", "4", "5">>
S_1001 == <<"1", "0", "0", "1">>
S_eggs == <<"e", "g", "g", "s">>
S_colored_42 == <<"ESC", "[", "3", "1", "m", "4", "2", "ESC", "[", "0", "m">>
S_colored_4_2 == <<"ESC", "[", "1", ";", "3", "1", ";", "4", "0", "m", "4", ".", "2", "ESC", "[", "0", "m">>


\* ----------------------------------------------------------- table renderer
RECURSIVE RepeatSeq(_, _)
RepeatSeq(fill, n) == IF n <= 0 THEN <<>> ELSE fill \o RepeatSeq(fill, n - 1)

_pad_row(cells, padding) ==
    [i \in 1..Len(cells) |-> Repeat(" ", padding) \o cells[i] \o Repeat(" ", padding)]

_build_row(padded_cells, colwidths, colaligns, rowfmt) ==
    CASE rowfmt.tag = "None" -> <<>>
      [] rowfmt.tag = "Fn" /\ rowfmt.fn = "_mediawiki_row_with_attrs" ->
            _mediawiki_row_with_attrs(rowfmt.bound, padded_cells, colwidths, colaligns)
      [] rowfmt.tag = "Fn" /\ rowfmt.fn = "_html_row_with_attrs" ->
            _html_row_with_attrs(rowfmt.bound, padded_cells, colwidths, colaligns)
      [] rowfmt.tag = "Fn" /\ rowfmt.fn = "_latex_row" ->
            _latex_row(padded_cells, colwidths, colaligns)
      [] OTHER -> _build_simple_row(padded_cells, rowfmt)

_build_line(colwidths, colaligns, linefmt) ==
    CASE linefmt.tag = "None" -> <<>>
      [] linefmt.tag = "Fn" /\ linefmt.fn = "_pipe_line_with_colons" ->
            _pipe_line_with_colons(colwidths, colaligns)
      [] linefmt.tag = "Fn" /\ linefmt.fn = "_latex_line_begin_tabular" ->
            _latex_line_begin_tabular(colwidths, colaligns, linefmt.bound # <<>>)
      [] OTHER ->
            _build_simple_row([i \in 1..Len(colwidths) |->
                                  RepeatSeq(linefmt.hline, colwidths[i])], linefmt)

\* The elements of with_header_hide are not displayed if the table has
\* column headers.
Hidden_without_headers(fmt, headers) ==
    IF Len(headers) = 0 THEN fmt.with_header_hide ELSE {}

Hidden(fmt, headers) ==
    IF Len(headers) > 0 THEN fmt.with_header_hide ELSE {}

Part(elem, text) == [elem |-> elem, text |-> text]

RECURSIVE DropTrailingBlank(_)
DropTrailingBlank(ps) ==
    IF Len(ps) > 0 /\ Strip(ps[Len(ps)].text) = <<>>
    THEN DropTrailingBlank(SubSeq(ps, 1, Len(ps) - 1))
    ELSE ps

RECURSIVE DataParts(_, _, _, _, _)
DataParts(padded_rows, widths, aligns, fmt, between) ==
    IF Len(padded_rows) = 0 THEN <<>>
    ELSE <<Part("datarow", _build_row(padded_rows[1], widths, aligns, fmt.datarow))>>
         \o (IF between /\ Len(padded_rows) > 1
             THEN <<Part("linebetweenrows",
                         _build_line(widths, aligns, fmt.linebetweenrows))>>
             ELSE <<>>)
         \o DataParts(Tail(padded_rows), widths, aligns, fmt, between)

PaddedWidths_one_side(fmt, colwidths) ==
    [i \in 1..Len(colwidths) |-> colwidths[i] + fmt.padding]

\* padding is the amount of white space around data values.
PaddedWidths(fmt, colwidths) ==
    [i \in 1..Len(colwidths) |-> colwidths[i] + 2 * fmt.padding]

\* The produced elements in document order, each with its text.
_format_table(fmt, headers, rows, colwidths, colaligns) ==
    LET hidden == Hidden(fmt, headers)
        pad == fmt.padding
        padded_widths == PaddedWidths(fmt, colwidths)
        padded_headers == _pad_row(headers, pad)
        padded_rows == [i \in 1..Len(rows) |-> _pad_row(rows[i], pad)]
        shown(e) == fmt[e] # None /\ e \notin hidden
        line(e) == IF shown(e)
                   THEN <<Part(e, _build_line(padded_widths, colaligns, fmt[e]))>>
                   ELSE <<>>
    IN  IF Len(headers) = 0 /\ Len(rows) = 0 THEN <<>>
        ELSE DropTrailingBlank(
                line("lineabove")
                \o (IF Len(headers) > 0
                    THEN <<Part("headerrow", _build_row(padded_headers, padded_widths,
                                                        colaligns, fmt.headerrow))>>
                         \o line("linebelowheader")
                    ELSE <<>>)
                \o DataParts(padded_rows, padded_widths, colaligns, fmt,
                             shown("linebetweenrows"))
                \o line("linebelow"))

\* The registry lookup of a render call: a name that is no key fails.
ByName(name) == [byname |-> TRUE, name |-> name, sep |-> <<>>]
BySeparator(sep) == [byname |-> FALSE, name |-> "", sep |-> sep]

LookupFormat_fallback(tablefmt) ==
    IF ~tablefmt.byname THEN [ok |-> TRUE, fmt |-> simple_separated_format(tablefmt.sep)]
    ELSE IF tablefmt.name \in tabulate_formats
         THEN [ok |-> TRUE, fmt |-> _table_formats(tablefmt.name)]
         ELSE [ok |-> TRUE, fmt |-> _table_formats("simple")]

LookupFormat(tablefmt) ==
    IF ~tablefmt.byname THEN [ok |-> TRUE, fmt |-> simple_separated_format(tablefmt.sep)]
    ELSE IF tablefmt.name \in tabulate_formats
         THEN [ok |-> TRUE, fmt |-> _table_formats(tablefmt.name)]
         ELSE [ok |-> FALSE, fmt |-> simple_separated_format(<<>>)]

\* ------------------------------------------------------------- the inputs
Hundredths(k) == k * Pow10(FracDigits - 2)

RowPool ==
    { <<PyText(S_foo), PyInt(1)>>,
      <<PyText(S_spam), PyInt(23)>>,
      <<PyInt(1), PyFloat(Hundredths(234))>>,
      <<PyInt(-56), PyText(<<"0">>)>>,
      <<PyFloat(Hundredths(250))>>,
      <<PyNone, PyText(S_eggs)>> }

HeaderPool == { <<>>, <<<<"a">>, <<"b", "b">>>> }

FormatPool ==
    {ByName(n) : n \in tabulate_formats \cup {"csv"}}
    \cup {BySeparator(sep) : sep \in {<<"\t">>, <<",">>, <<";", " ">>}}

AlignPool ==
    { <<"decimal", "left">>, <<"right", "center">>, <<"center", "right">>,
      <<"left", "left">> }

RECURSIVE Tables(_)
Tables(n) ==
    IF n = 0 THEN {<<>>}
    ELSE Tables(n - 1) \cup {Append(t, r) : t \in {u \in Tables(n - 1) : Len(u) = n - 1},
                                              r \in RowPool}

ProbeValues ==
    { PyNone, PyInt(42), PyInt(-56), PyBool(TRUE), PyFloat(Hundredths(234)),
      PyFloat(Hundredths(200)), PyDate, PyObject,
      PyText(S_foo), PyText(<<"1">>), PyText(S_123_45), PyText(S_123e45),
      PyText(<<" ", "1", "2", " ">>), PyText(<<"+", "3">>), PyText(<<"1", ".">>),
      PyText(<<".", "5">>), PyText(<<"1", "e">>), PyText(<<".">>), PyText(<<"-">>),
      PyText(<<>>), PyText(<<"n", "a", "n">>), PyText(S_colored_42),
      PyText(S_colored_4_2),
      PyBytes(<<"1", "2">>), PyBytes(<<"1", ".", "5">>), PyBytes(S_foo) }

ProbeStrings ==
    { S_123_45, S_1001, S_eggs, S_123e45, <<"1", ".">>, <<"2", ".", "5", "E", "3">>,
      <<>>, <<"-", "5", "6">>, <<".", "5">> }

\* The widest cell content the rule probes use.
MaxCellWidth == 3

ProbeAligns == {"left", "right", "center", "decimal", "none"}

\* ---------------------------------------------------------- the machine
VARIABLES
    pc,             \* "idle", "normalized", "columns", "done", "failed", "probe"
    call,           \* the arguments of the render call in progress
    table,          \* the normalized headers and rows
    cols,           \* per column: type, alignment, width, aligned cells
    padded_widths,  \* the column widths the assembly uses
    parts,          \* the produced elements, in document order
    out,            \* the returned text
    outcome,        \* "none", "ok", "ConfigurationError"
    probe,          \* the arguments and result of a helper applied on its own
    menu_pc,        \* registro_Menu: "while", "input", "returned"
    op,             \* registro_Menu's op, after the try statement
    console,        \* what registro_Menu printed and ran on the console, in order
    called          \* the method registro_Menu dispatched to, "" before

tabvars == <<pc, call, table, cols, padded_widths, parts, out, outcome, probe>>
menuvars == <<menu_pc, op, console, called>>
vars == <<pc, call, table, cols, padded_widths, parts, out, outcome, probe,
          menu_pc, op, console, called>>

NoCall == [tablefmt |-> ByName(""), headers |-> <<>>, rows |-> <<>>,
           numalign |-> "", stralign |-> ""]
NoTable == [headers |-> <<>>, rows |-> <<>>, ncols |-> 0]
NoCols == [types |-> <<>>, aligns |-> <<>>, widths |-> <<>>, headers |-> <<>>,
           rows |-> <<>>]
NoProbe == [op |-> "", args |-> <<>>, result |-> <<>>]

Init ==
    /\ pc = "idle"
    /\ call = NoCall
    /\ table = NoTable
    /\ cols = NoCols
    /\ padded_widths = <<>>
    /\ parts = <<>>
    /\ out = <<>>
    /\ outcome = "none"
    /\ probe = NoProbe
    /\ menu_pc = "while"
    /\ op = 0
    /\ console = <<>>
    /\ called = ""

\* Stage 1 of a render call: the rows are padded to a common arity with
\* missing values.
NormalizedTable(headers, rows) ==
    LET ncols == Max(Len(headers), SeqMax([i \in 1..Len(rows) |-> Len(rows[i])]))
    IN  [headers |-> IF Len(headers) = 0 THEN <<>>
                     ELSE [j \in 1..ncols |-> IF j <= Len(headers) THEN headers[j]
                                              ELSE <<>>],
         rows |-> [i \in 1..Len(rows) |->
                      [j \in 1..ncols |-> IF j <= Len(rows[i]) THEN rows[i][j]
                                          ELSE PyNone]],
         ncols |-> ncols]

Render_Normalize ==
    /\ pc = "idle"
    /\ \E tablefmt \in FormatPool, headers \in HeaderPool, rows \in Tables(MaxRows),
          al \in AlignPool :
          /\ LookupFormat(tablefmt).ok
          /\ call' = [tablefmt |-> tablefmt, headers |-> headers, rows |-> rows,
                      numalign |-> al[1], stralign |-> al[2]]
          /\ table' = NormalizedTable(headers, rows)
    /\ pc' = "normalized"
    /\ UNCHANGED <<cols, padded_widths, parts, out, outcome, probe>>
    /\ UNCHANGED menuvars

\* A render call with a format name that is no key of the registry.
Render_Reject ==
    /\ pc = "idle"
    /\ \E tablefmt \in FormatPool, headers \in HeaderPool, rows \in Tables(MaxRows),
          al \in AlignPool :
          /\ ~LookupFormat(tablefmt).ok
          /\ call' = [tablefmt |-> tablefmt, headers |-> headers, rows |-> rows,
                      numalign |-> al[1], stralign |-> al[2]]
    /\ pc' = "failed"
    /\ outcome' = "ConfigurationError"
    /\ UNCHANGED <<table, cols, padded_widths, parts, out, probe>>
    /\ UNCHANGED menuvars

\* Stages 2 and 3: per column the type, the alignment, the formatted cells
\* and the width.
ColumnAligned(aligned, type, align, hw, header, has_rows) ==
    LET width == IF has_rows THEN _visible_width(aligned[1]) ELSE hw
    IN  [type |-> type, align |-> align, width |-> width,
         header |-> _align_header(header, align, width), cells |-> aligned]

ColumnFormatted(strings, type, align, hw, header) ==
    ColumnAligned(_align_column(strings, align, hw), type, align, hw, header,
                  Len(strings) > 0)

ColumnTyped(values, type, align, header, has_header) ==
    ColumnFormatted([i \in 1..Len(values) |-> _format(values[i], type, <<>>)],
                    type, align, IF has_header THEN _visible_width(header) ELSE 0,
                    header)

Column(values, header, has_header, numalign, stralign) ==
    ColumnTyped(values, _column_type(values, TRUE),
                ColumnAlign(_column_type(values, TRUE), numalign, stralign),
                header, has_header)

\* The columns, read per attribute (and the cells per row again).
ByAttribute(col, nrows, has_header) ==
    [types |-> [j \in 1..Len(col) |-> col[j].type],
     aligns |-> [j \in 1..Len(col) |-> col[j].align],
     widths |-> [j \in 1..Len(col) |-> col[j].width],
     headers |-> IF has_header THEN [j \in 1..Len(col) |-> col[j].header] ELSE <<>>,
     rows |-> [i \in 1..nrows |-> [j \in 1..Len(col) |-> col[j].cells[i]]]]

Columns(t, numalign, stralign) ==
    ByAttribute([j \in 1..t.ncols |->
                    Column([i \in 1..Len(t.rows) |-> t.rows[i][j]],
                           IF Len(t.headers) = 0 THEN <<>> ELSE t.headers[j],
                           Len(t.headers) > 0, numalign, stralign)],
                Len(t.rows), Len(t.headers) > 0)

Render_Columns ==
    /\ pc = "normalized"
    /\ cols' = Columns(table, call.numalign, call.stralign)
    /\ pc' = "columns"
    /\ UNCHANGED <<call, table, padded_widths, parts, out, outcome, probe>>
    /\ UNCHANGED menuvars

\* Stage 4: the text is assembled from the format descriptor.
Render_Assemble ==
    /\ pc = "columns"
    /\ LET fmt == LookupFormat(call.tablefmt).fmt
           ps == _format_table(fmt, cols.headers, cols.rows, cols.widths, cols.aligns)
       IN  /\ padded_widths' = PaddedWidths(fmt, cols.widths)
           /\ parts' = ps
           /\ out' = Join(<<"\n">>, [i \in 1..Len(ps) |-> ps[i].text])
    /\ outcome' = "ok"
    /\ pc' = "done"
    /\ UNCHANGED <<call, table, cols, probe>>
    /\ UNCHANGED menuvars

\* The helpers applied on their own.
Classify ==
    /\ pc = "idle"
    /\ \E v \in ProbeValues, has_invisible \in BOOLEAN :
          probe' = [op |-> "_type", args |-> <<v, has_invisible>>,
                    result |-> _type(v, has_invisible)]
    /\ pc' = "probe"
    /\ UNCHANGED <<call, table, cols, padded_widths, parts, out, outcome>>
    /\ UNCHANGED menuvars

Merge ==
    /\ pc = "idle"
    /\ \E a \in Classes, b \in Classes :
          probe' = [op |-> "_more_generic", args |-> <<a, b>>,
                    result |-> _more_generic(a, b)]
    /\ pc' = "probe"
    /\ UNCHANGED <<call, table, cols, padded_widths, parts, out, outcome>>
    /\ UNCHANGED menuvars

Afterpoint ==
    /\ pc = "idle"
    /\ \E s \in ProbeStrings :
          probe' = [op |-> "_afterpoint", args |-> <<s>>, result |-> _afterpoint(s)]
    /\ pc' = "probe"
    /\ UNCHANGED <<call, table, cols, padded_widths, parts, out, outcome>>
    /\ UNCHANGED menuvars

PipeLine ==
    /\ pc = "idle"
    /\ \E a1 \in ProbeAligns, a2 \in ProbeAligns,
          w1 \in 0..MaxCellWidth, w2 \in 0..MaxCellWidth :
          LET widths == PaddedWidths(_table_formats("pipe"), <<w1, w2>>)
          IN  probe' = [op |-> "_pipe_line_with_colons", args |-> <<widths, <<a1, a2>>>>,
                        result |-> _pipe_line_with_colons(widths, <<a1, a2>>)]
    /\ pc' = "probe"
    /\ UNCHANGED <<call, table, cols, padded_widths, parts, out, outcome>>
    /\ UNCHANGED menuvars

\* The call returns (or raises) and the next one starts from scratch.
Return ==
    /\ pc \in {"done", "failed", "probe"}
    /\ pc' = "idle"
    /\ call' = NoCall
    /\ table' = NoTable
    /\ cols' = NoCols
    /\ padded_widths' = <<>>
    /\ parts' = <<>>
    /\ out' = <<>>
    /\ outcome' = "none"
    /\ probe' = NoProbe
    /\ UNCHANGED menuvars

Next ==
    \/ Render_Normalize
    \/ Render_Reject
    \/ Render_Columns
    \/ Render_Assemble
    \/ Classify
    \/ Merge
    \/ Afterpoint
    \/ PipeLine
    \/ Return

Spec == Init /\ [][Next]_vars

\* ----------------------------------------------------------- registro_Menu
\* The entries of the console's transcript.
Printed(text) == [kind |-> "print", text |-> text]
Prompted(text) == [kind |-> "input", text |-> text]
Typed(line) == [kind |-> "typed", line |-> line]
System(command) == [kind |-> "os.system", text |-> command]

MenuTitle == Printed("\n\tREGISTRO")
MenuOptions ==
    Printed(" 1.- Inscripcion\n 2.- Modificar Inscripcion\n 3.- Monstrar Paises Inscritos\n 4.- Eliminar Inscripcion\n 5.- Atras\n")
MenuPrompt == Prompted("Ingrese una opcion: ")
OpcionIncorrecta == Printed("Opcion incorrecta, Vuelva a intentarlo!")
SoloDigitos == Printed("Ingrese solo digitos!")

\* int(s) of a string that int() accepts.
IntValue(s) ==
    LET t == Strip(s)
        i0 == IF At(t, 1) \in {"+", "-"} THEN 2 ELSE 1
        m == StrToNat(SubSeq(t, i0, Len(t)))
    IN  IF At(t, 1) = "-" THEN -m ELSE m

\* The lines a user types at the prompt.
MenuInputs ==
    { <<"1">>, <<"2">>, <<"3">>, <<"4">>, <<"5">>, <<"6">>, <<"7">>, <<"0">>,
      <<"-", "1">>, <<"1", "2">>, <<" ", "3">>, <<"+", "4">>, <<"a">>, <<>>,
      <<"2", ".", "0">> }

Prompts(transcript) ==
    Cardinality({i \in 1..Len(transcript) : transcript[i] = MenuPrompt})

\* The loop test passes: the menu is printed and input() waits for a line.
Menu_Show ==
    /\ menu_pc = "while"
    /\ op \notin {1, 2, 3, 4, 5}
    /\ Prompts(console) < MaxPrompts
    /\ console' = console \o <<MenuTitle, MenuOptions, MenuPrompt>>
    /\ menu_pc' = "input"
    /\ UNCHANGED <<op, called>>
    /\ UNCHANGED tabvars

\* input() returns the typed line and the try statement runs.
Menu_Enter ==
    /\ menu_pc = "input"
    /\ \E line \in MenuInputs :
          IF IsIntLiteral(line)
          THEN /\ op' = IntValue(line)
               /\ console' = console \o <<Typed(line)>> \o
                    (IF IntValue(line) \notin {1, 2, 3, 4, 5, 6}
                     THEN <<OpcionIncorrecta, System("cls")>> ELSE <<>>)
          ELSE /\ op' = 0
               /\ console' = console \o <<Typed(line), SoloDigitos>>
    /\ menu_pc' = "while"
    /\ UNCHANGED called
    /\ UNCHANGED tabvars

\* The loop test fails and the if chain calls the chosen operation.
Menu_Dispatch ==
    /\ menu_pc = "while"
    /\ op \in {1, 2, 3, 4, 5}
    /\ called' = CASE op = 1 -> "r.inscripcion"
                   [] op = 2 -> "r.modificar"
                   [] op = 3 -> "r.mostrar_Reg"
                   [] op = 4 -> "r.eliminar"
                   [] OTHER -> "menu"
    /\ menu_pc' = "returned"
    /\ UNCHANGED <<op, console>>
    /\ UNCHANGED tabvars

MenuNext ==
    \/ Menu_Show
    \/ Menu_Enter
    \/ Menu_Dispatch

MenuSpec == Init /\ [][MenuNext]_vars

\* ------------------------------------------------- reading a finished call
\* The descriptor the call renders with.
Fmt == LookupFormat(call.tablefmt).fmt
Registered == call.tablefmt.byname /\ call.tablefmt.name \in tabulate_formats
HasHeader == Len(call.headers) > 0
NRows == Len(call.rows)
Emitted(e) == \E i \in 1..Len(parts) : parts[i].elem = e

\* s split at every occurrence of the character c.
RECURSIVE FirstIndex(_, _, _)
FirstIndex(s, c, i) ==
    IF i > Len(s) THEN 0 ELSE IF s[i] = c THEN i ELSE FirstIndex(s, c, i + 1)

RECURSIVE SplitOn(_, _)
SplitOn(s, c) ==
    LET k == FirstIndex(s, c, 1)
    IN  IF k = 0 THEN <<s>>
        ELSE <<SubSeq(s, 1, k - 1)>> \o SplitOn(SubSeq(s, k + 1, Len(s)), c)

TextLines(text) == IF Len(text) = 0 THEN <<>> ELSE SplitOn(text, "\n")
NumLines(text) == Len(TextLines(text))

\* ---------------------------------------------------------------------- C1
\* C1 as stated: in a finished render, every present element of the
\* descriptor's header-hide set is omitted exactly when no header row was
\* supplied, and rendered when one was.
C1_AsStated ==
    pc = "done" =>
        \A e \in Fmt.with_header_hide :
            Fmt[e] # None => (Emitted(e) <=> HasHeader)

\* C1 amended: in a finished render of a table with at least one row, every
\* present element of the descriptor's header-hide set is omitted exactly
\* when a header row was supplied, and rendered when none was.
C1_HeaderHide ==
    (pc = "done" /\ NRows > 0) =>
        \A e \in Fmt.with_header_hide :
            Fmt[e] # None => (Emitted(e) <=> ~HasHeader)

C1_Witness ==
    /\ pc = "done" /\ call.tablefmt = ByName("simple") /\ HasHeader /\ NRows > 0
    /\ ~Emitted("lineabove") /\ ~Emitted("linebelow") /\ Emitted("linebelowheader")

\* ---------------------------------------------------------------------- C2
\* C2: a render call whose format argument is a name that is no key of the
\* registry ends in ConfigurationError and produces no text and no element.
C2_UnknownFormat ==
    (pc # "idle" /\ pc # "probe" /\ call.tablefmt.byname
     /\ call.tablefmt.name \notin tabulate_formats)
    => /\ pc = "failed"
       /\ outcome = "ConfigurationError"
       /\ out = <<>>
       /\ parts = <<>>

C2_Witness ==
    pc = "failed" /\ call.tablefmt = ByName("csv") /\ outcome = "ConfigurationError"

\* ---------------------------------------------------------------------- C3
\* The display width of column j's header, and of its widest formatted cell.
HeaderWidth(j) == IF HasHeader THEN _visible_width(table.headers[j]) ELSE 0
CellWidth(j) ==
    SeqMax([i \in 1..Len(table.rows) |->
               _visible_width(_format(table.rows[i][j], cols.types[j], <<>>))])

\* A descriptor without any rule line.
Borderless(fmt) ==
    /\ fmt.lineabove = None /\ fmt.linebelowheader = None
    /\ fmt.linebetweenrows = None /\ fmt.linebelow = None

\* The padding of section 4.2: the descriptor's, floored at MIN_PADDING for
\* borderless formats.
FlooredPadding(fmt) ==
    IF Borderless(fmt) THEN Max(fmt.padding, MIN_PADDING) ELSE fmt.padding

\* C3 as stated: every column's width is at least max(header width, widest
\* formatted cell) plus twice the effective padding, the descriptor's padding
\* floored at the minimum padding for borderless formats.
C3_AsStated ==
    pc = "done" =>
        \A j \in 1..table.ncols :
            padded_widths[j] >= Max(HeaderWidth(j), CellWidth(j)) + 2 * FlooredPadding(Fmt)

\* C3 amended: every column's width is at least max(header width, widest
\* formatted cell) plus twice the descriptor's padding.
C3_ColumnWidth ==
    pc = "done" =>
        \A j \in 1..table.ncols :
            padded_widths[j] >= Max(HeaderWidth(j), CellWidth(j)) + 2 * Fmt.padding

C3_Witness ==
    /\ pc = "done" /\ Fmt.padding = 1 /\ NRows > 0
    /\ \E j \in 1..table.ncols :
          HeaderWidth(j) > CellWidth(j) /\ padded_widths[j] = HeaderWidth(j) + 2

\* ---------------------------------------------------------------------- C4
\* The offset of the decimal point of a rendered cell, or of the position
\* right after its last character when it has no point.
PointOffset(cell) ==
    IF RFind(cell, ".") > 0 THEN RFind(cell, ".") ELSE Len(RStrip(cell)) + 1
Blank(cell) == Strip(cell) = <<>>
HasPoint(cell) == RFind(cell, ".") > 0

\* C4: in every numeric column rendered with decimal alignment, the decimal
\* point (or the place where it would be) is at the same offset in every
\* rendered data cell that holds a number.
C4_DecimalAligned ==
    pc \in {"columns", "done"} =>
        \A j \in 1..table.ncols :
            (cols.types[j] \in {"int", "long", "float"} /\ cols.aligns[j] = "decimal") =>
                \A i, k \in 1..Len(cols.rows) :
                    (~Blank(cols.rows[i][j]) /\ ~Blank(cols.rows[k][j])) =>
                        PointOffset(cols.rows[i][j]) = PointOffset(cols.rows[k][j])

C4_Witness ==
    /\ pc = "done"
    /\ \E j \in 1..table.ncols :
          /\ cols.types[j] = "float" /\ cols.aligns[j] = "decimal"
          /\ \E i, k \in 1..Len(cols.rows) :
                /\ HasPoint(cols.rows[i][j])
                /\ ~HasPoint(cols.rows[k][j]) /\ ~Blank(cols.rows[k][j])
                /\ PointOffset(cols.rows[i][j]) = PointOffset(cols.rows[k][j])

\* ---------------------------------------------------------------------- C5
\* An element counts when the descriptor has it and it is not hidden.
Counts(e) == Fmt[e] # None /\ e \notin Hidden(Fmt, call.headers)
One(b) == IF b THEN 1 ELSE 0

StructuralElements ==
    One(Counts("lineabove"))
    + (IF HasHeader THEN 1 + One(Counts("linebelowheader")) ELSE 0)
    + (IF Counts("linebetweenrows") /\ NRows > 1 THEN NRows - 1 ELSE 0)
    + One(Counts("linebelow"))

\* C5 as stated, for the tables with a header or a row: for every registered
\* format, the number of lines of the text equals the number of non-hidden,
\* non-absent structural elements plus one line per data row.
C5_AsStated ==
    (pc = "done" /\ Registered /\ (HasHeader \/ NRows > 0)) =>
        NumLines(out) = StructuralElements + NRows

\* The number of lines the text of a rule element spans.
RuleLines(name, e) ==
    CASE name = "mediawiki" /\ e = "lineabove" -> 3
      [] name \in {"latex", "latex_booktabs"} /\ e \in {"lineabove", "linebelow"} -> 2
      [] OTHER -> 1

StructuralLines ==
    RuleLines(call.tablefmt.name, "lineabove") * One(Counts("lineabove"))
    + (IF HasHeader THEN 1 + One(Counts("linebelowheader")) ELSE 0)
    + (IF Counts("linebetweenrows") /\ NRows > 1 THEN NRows - 1 ELSE 0)
    + RuleLines(call.tablefmt.name, "linebelow") * One(Counts("linebelow"))

\* C5 amended: for every registered format and every table with a header or
\* a row, the number of lines of the text equals one line per data row plus
\* the lines of the non-hidden, non-absent structural elements, each one
\* line except mediawiki's lineabove (3 lines) and the lineabove and
\* linebelow of latex and latex_booktabs (2 lines each).
C5_LineCount ==
    (pc = "done" /\ Registered /\ (HasHeader \/ NRows > 0)) =>
        NumLines(out) = StructuralLines + NRows

C5_Witness ==
    /\ pc = "done" /\ call.tablefmt = ByName("latex") /\ HasHeader /\ NRows = 2
    /\ NumLines(out) = 8 /\ StructuralElements + NRows = 6

\* ---------------------------------------------------------------------- C6
\* The docstring of simple_separated_format: the rows [["foo", 1],
\* ["spam", 23]] rendered as tab-separated values.
DocstringRows == << <<PyText(S_foo), PyInt(1)>>, <<PyText(S_spam), PyInt(23)>> >>
DocstringText ==
    <<"f", "o", "o", " ", "\t", " ", "1", "\n", "s", "p", "a", "m", "\t", "2", "3">>
DefaultAligns == call.numalign = "decimal" /\ call.stralign = "left"

Separated == ~call.tablefmt.byname \/ call.tablefmt = ByName("tsv")
Separator == IF call.tablefmt.byname THEN <<"\t">> ELSE call.tablefmt.sep

\* C6: a headerless table rendered with simple_separated_format(s), or with
\* "tsv" for s = TAB, yields one line per data row and no rule line, each
\* line the row's aligned cells, each as wide as its column, joined by s with
\* nothing before the first and after the last; the docstring's rows give
\* "foo \t 1\nspam\t23".
C6_Separated ==
    (pc = "done" /\ Separated /\ ~HasHeader /\ NRows > 0) =>
        /\ Len(parts) = NRows
        /\ \A i \in 1..NRows :
              /\ parts[i].elem = "datarow"
              /\ parts[i].text = Join(Separator, cols.rows[i])
              /\ \A j \in 1..table.ncols :
                    _visible_width(cols.rows[i][j]) = cols.widths[j]
        /\ out = Join(<<"\n">>, [i \in 1..NRows |-> Join(Separator, cols.rows[i])])
        /\ (call.rows = DocstringRows /\ DefaultAligns /\ Separator = <<"\t">>)
              => out = DocstringText

C6_Witness ==
    /\ pc = "done" /\ call.tablefmt = BySeparator(<<"\t">>) /\ ~HasHeader
    /\ call.rows = DocstringRows /\ DefaultAligns /\ out = DocstringText

\* ---------------------------------------------------------------------- C7
\* The segments of a rule |seg|seg|...|.
RuleSegments(line) == SplitOn(SubSeq(line, 2, Len(line) - 1), "|")
IsRule(line) == Len(line) >= 2 /\ line[1] = "|" /\ line[Len(line)] = "|"
First(seg) == At(seg, 1)
Last(seg) == At(seg, Len(seg))

ColonsEncode(seg, align) ==
    CASE align = "left" -> First(seg) = ":" /\ Last(seg) # ":"
      [] align \in {"right", "decimal"} -> Last(seg) = ":" /\ First(seg) # ":"
      [] align = "center" -> First(seg) = ":" /\ Last(seg) = ":"
      [] OTHER -> TRUE

\* C7: in a pipe rendering with a header row, the second line of the text is
\* a rule |seg|...| with one segment per column, whose colons encode the
\* column's alignment: leading for left, trailing for right and decimal, both
\* for center.
C7_PipeRule ==
    (pc = "done" /\ call.tablefmt = ByName("pipe") /\ HasHeader) =>
        /\ NumLines(out) >= 2
        /\ LET rule == TextLines(out)[2]
           IN  /\ IsRule(rule)
               /\ Len(RuleSegments(rule)) = table.ncols
               /\ \A j \in 1..table.ncols :
                     ColonsEncode(RuleSegments(rule)[j], cols.aligns[j])

C7_Witness ==
    /\ pc = "done" /\ call.tablefmt = ByName("pipe") /\ HasHeader /\ NRows > 0
    /\ cols.aligns = <<"left", "decimal">>
    /\ TextLines(out)[2] = <<"|", ":", "-", "-", "-", "-", "|", "-", "-", "-", ":", "|">>

\* ---------------------------------------------------------------------- C8
Value == probe.args[1]

\* The classification by the first test that succeeds, each numeric test
\* being the conversion of the value itself (long is int in Python 3, so the
\* test for long is the test for int).
TypeAsStated(v) ==
    IF v.kind = "none" THEN "NoneType"
    ELSE IF TypeOf(v) = "int" THEN "int"
    ELSE IF v.kind = "date" THEN "str"
    ELSE IF Converts("int", v) THEN "int"
    ELSE IF Converts("float", v) THEN "float"
    ELSE IF v.kind = "bytes" THEN "bytes"
    ELSE "str"

\* C8 as stated: the classifier returns the class of the first test that
\* succeeds, a value being convertible to a numeric type exactly when the
\* conversion of the value succeeds.
C8_AsStated ==
    (pc = "probe" /\ probe.op = "_type") => probe.result = TypeAsStated(Value)

\* The same order, the integer tests being made on text and byte strings
\* only, and every test on the text without its invisible codes when they
\* are to be stripped.
TypeAmended(v, has_invisible) ==
    LET u == IF has_invisible /\ v.kind \in {"text", "bytes"}
             THEN [v EXCEPT !.s = StripFrom(v.s, 1)] ELSE v
    IN  IF u.kind = "none" THEN "NoneType"
        ELSE IF TypeOf(u) = "int" THEN "int"
        ELSE IF u.kind = "date" THEN "str"
        ELSE IF u.kind \in {"text", "bytes"} /\ Converts("int", u) THEN "int"
        ELSE IF Converts("float", u) THEN "float"
        ELSE IF u.kind = "bytes" THEN "bytes"
        ELSE "str"

\* C8 amended: the classifier returns the class of the first test that
\* succeeds in the stated order, where only text and byte strings are tested
\* for convertibility to int and long, and where, with invisible-code
\* stripping on, the tests read the text without its invisible codes.
C8_Classifier ==
    (pc = "probe" /\ probe.op = "_type") =>
        probe.result = TypeAmended(Value, probe.args[2])

C8_Witness ==
    /\ pc = "probe" /\ probe.op = "_type" /\ Value.kind = "float"
    /\ Converts("int", Value) /\ probe.result = "float"

\* ---------------------------------------------------------------------- C9
StrictlyMoreSpecific(a, b) == LatticeLeq(a, b) /\ a # b

RECURSIVE WithoutMissing(_)
WithoutMissing(values) ==
    IF Len(values) = 0 THEN <<>>
    ELSE (IF values[1].kind = "none" THEN <<>> ELSE <<values[1]>>)
         \o WithoutMissing(Tail(values))

\* C9: a merge is never strictly more specific than either argument, none
\* is its identity, and a column's type is the type of its cells that are
\* not missing.
C9_Merge ==
    /\ (pc = "probe" /\ probe.op = "_more_generic") =>
          /\ ~StrictlyMoreSpecific(probe.result, probe.args[1])
          /\ ~StrictlyMoreSpecific(probe.result, probe.args[2])
          /\ probe.args[1] = "NoneType" => probe.result = probe.args[2]
          /\ probe.args[2] = "NoneType" => probe.result = probe.args[1]
    /\ pc \in {"columns", "done"} =>
          \A j \in 1..table.ncols :
              cols.types[j] =
                  _column_type(WithoutMissing([i \in 1..Len(table.rows) |->
                                                  table.rows[i][j]]), TRUE)

C9_Witness ==
    /\ pc = "probe" /\ probe.op = "_more_generic"
    /\ probe.args = <<"int", "bytes">> /\ probe.result = "str"

\* --------------------------------------------------------------------- C10
SameLength(ls) == \A i, k \in 1..Len(ls) : Len(ls[i]) = Len(ls[k])

\* C10: every segment of a pipe rule is exactly as long as its column is
\* wide, for the widths a pipe rendering produces (padding 1 on both sides)
\* and every alignment, so the rule is as long as the header and data lines.
C10_PipeSegments ==
    /\ (pc = "probe" /\ probe.op = "_pipe_line_with_colons") =>
          /\ IsRule(probe.result)
          /\ Len(RuleSegments(probe.result)) = Len(probe.args[1])
          /\ \A j \in 1..Len(probe.args[1]) :
                Len(RuleSegments(probe.result)[j]) = probe.args[1][j]
    /\ (pc = "done" /\ call.tablefmt = ByName("pipe") /\ (HasHeader \/ NRows > 0)) =>
          /\ \E i \in 1..Len(parts) :
                /\ parts[i].elem \in {"lineabove", "linebelowheader"}
                /\ \A j \in 1..table.ncols :
                      Len(RuleSegments(parts[i].text)[j]) = padded_widths[j]
          /\ SameLength(TextLines(out))

C10_Witness ==
    /\ pc = "done" /\ call.tablefmt = ByName("pipe") /\ HasHeader /\ NRows = 2
    /\ \E j \in 1..table.ncols : cols.aligns[j] = "center" /\ padded_widths[j] = 3
    /\ SameLength(TextLines(out)) /\ NumLines(out) = 4

\* --------------------------------------------------------------------- C11
IsPrompt(i) == i \in 1..Len(console) /\ console[i] = MenuPrompt
IsErrorMessage(i) == console[i] \in {OpcionIncorrecta, SoloDigitos}
\* Prompt j is the first one after prompt i.
NextPrompt(i, j) ==
    /\ IsPrompt(i) /\ IsPrompt(j) /\ i < j
    /\ \A k \in (i + 1)..(j - 1) : ~IsPrompt(k)
LeftLoop == menu_pc = "returned"

\* C11: registro_Menu's prompt loop is left only when the entered option is
\* an integer in 1..5, and every input that is rejected (is followed by
\* another prompt) produces an error message, "Opcion incorrecta" or
\* "Ingrese solo digitos", before that next prompt.
C11_AsStated ==
    /\ LeftLoop => op \in 1..5
    /\ \A i, j \in 1..Len(console) :
          NextPrompt(i, j) => \E k \in (i + 1)..(j - 1) : IsErrorMessage(k)
====
